---- MODULE Spec2Model ----
(***************************************************************************)
(* Time-stepping drivers of the 2D cylinder-flow solvers:                  *)
(*   navier_simple  (2D-cylinder/navier_simple.cpp, main)                  *)
(*   navier_solver  (2D-cylinder/navier_solver.cpp, NavierStokesSolver)    *)
(*   the serial test variant of NavierStokesSolver (QUICK_COMMANDS.md)     *)
(* Times are IEEE-754 binary64 values, computed bit-exactly.               *)
(***************************************************************************)
EXTENDS Integers, Sequences, FiniteSets, TLC

(***************************************************************************)
(* Natural numbers of arbitrary size: sequences of 15-bit limbs, least     *)
(* significant limb first, no leading zero limb.  <<>> is zero.  Bits are  *)
(* numbered from 1 (least significant).                                    *)
(***************************************************************************)
Pow2(k) == <<1, 2, 4, 8, 16, 32, 64, 128, 256, 512, 1024, 2048, 4096, 8192,
             16384, 32768>>[k + 1]

Limb(a, j) == IF j >= 1 /\ j <= Len(a) THEN a[j] ELSE 0

BNorm(a) ==
    IF \A i \in 1..Len(a) : a[i] = 0 THEN <<>>
    ELSE SubSeq(a, 1, CHOOSE i \in 1..Len(a) :
                          a[i] # 0 /\ \A j \in (i + 1)..Len(a) : a[j] = 0)

BFromInt(n) ==
    BNorm(<<n % 32768, (n \div 32768) % 32768, n \div 1073741824>>)

\* for a < 2^31
BToInt(a) == Limb(a, 1) + (32768 * Limb(a, 2)) + (1073741824 * Limb(a, 3))

BLen(a) ==
    IF a = <<>> THEN 0
    ELSE (15 * (Len(a) - 1))
         + CHOOSE n \in 1..15 : Pow2(n - 1) <= a[Len(a)] /\ a[Len(a)] < Pow2(n)

BBit(a, i) == (Limb(a, ((i - 1) \div 15) + 1) \div Pow2((i - 1) % 15)) % 2

BShl(a, k) ==
    LET w == k \div 15
        b == k % 15
    IN  BNorm([j \in 1..(Len(a) + w + 1) |->
                 IF j <= w THEN 0
                 ELSE ((Limb(a, j - w) * Pow2(b)) % 32768)
                      + (Limb(a, j - w - 1) \div Pow2(15 - b))])

BShr(a, k) ==
    LET w == k \div 15
        b == k % 15
        n == IF Len(a) > w THEN Len(a) - w ELSE 0
    IN  BNorm([j \in 1..n |->
                 (Limb(a, j + w) \div Pow2(b))
                 + ((Limb(a, j + w + 1) % Pow2(b)) * Pow2(15 - b))])

\* some bit among the k lowest is set
BAnyOne(a, k) ==
    \/ \E j \in 1..(k \div 15) : Limb(a, j) # 0
    \/ (Limb(a, (k \div 15) + 1) % Pow2(k % 15)) # 0

RECURSIVE BAddI(_, _, _, _)
BAddI(a, b, i, c) ==
    IF i > Len(a) /\ i > Len(b)
    THEN (IF c = 0 THEN <<>> ELSE <<c>>)
    ELSE LET s == Limb(a, i) + Limb(b, i) + c
         IN  <<s % 32768>> \o BAddI(a, b, i + 1, s \div 32768)

BAdd(a, b) == BAddI(a, b, 1, 0)

RECURSIVE BSubI(_, _, _, _)
BSubI(a, b, i, c) ==
    IF i > Len(a) THEN <<>>
    ELSE LET s == Limb(a, i) - Limb(b, i) - c
         IN  <<s % 32768>> \o BSubI(a, b, i + 1, IF s < 0 THEN 1 ELSE 0)

\* a - b for a >= b
BSub(a, b) == BNorm(BSubI(a, b, 1, 0))

\* -1, 0, 1 as a < b, a = b, a > b
BCmp(a, b) ==
    IF Len(a) > Len(b) THEN 1
    ELSE IF Len(a) < Len(b) THEN -1
    ELSE IF a = b THEN 0
    ELSE LET i == CHOOSE i \in 1..Len(a) :
                      a[i] # b[i] /\ \A j \in (i + 1)..Len(a) : a[j] = b[j]
         IN  IF a[i] > b[i] THEN 1 ELSE -1

RECURSIVE BMulSmallI(_, _, _, _)
BMulSmallI(a, k, i, c) ==
    IF i > Len(a) THEN (IF c = 0 THEN <<>> ELSE <<c>>)
    ELSE LET s == (a[i] * k) + c
         IN  <<s % 32768>> \o BMulSmallI(a, k, i + 1, s \div 32768)

\* a * k for 0 <= k <= 32768
BMulSmall(a, k) == BNorm(BMulSmallI(a, k, 1, 0))

RECURSIVE BDivSmallI(_, _, _, _)
BDivSmallI(a, d, i, r) ==
    IF i = 0 THEN <<<<>>, r>>
    ELSE LET x    == (r * 32768) + a[i]
             rest == BDivSmallI(a, d, i - 1, x % d)
         IN  <<rest[1] \o <<x \div d>>, rest[2]>>

\* <<quotient, remainder>> of a by d, 0 < d <= 32768; the remainder is an int
BDivSmall(a, d) ==
    LET qr == BDivSmallI(a, d, Len(a), 0)
    IN  <<BNorm(qr[1]), qr[2]>>

\* one step of binary long division of a by b: bring down bit i of a
BDivStep(a, b, i, st) ==
    LET r2 == BAdd(BShl(st[2], 1), IF BBit(a, i) = 1 THEN <<1>> ELSE <<>>)
        ge == BCmp(r2, b) >= 0
    IN  <<BAdd(BShl(st[1], 1), IF ge THEN <<1>> ELSE <<>>),
          IF ge THEN BSub(r2, b) ELSE r2>>

RECURSIVE BDivRange(_, _, _, _, _)
BDivRange(a, b, hi, lo, st) ==
    IF hi < lo THEN st
    ELSE LET st2 == BDivStep(a, b, hi, st)
         IN  IF st2 = <<>> THEN st2 ELSE BDivRange(a, b, hi - 1, lo, st2)

RECURSIVE BDivBlocks(_, _, _, _)
BDivBlocks(a, b, hi, st) ==
    IF hi <= 0 THEN st
    ELSE LET lo  == IF hi > 8 THEN hi - 7 ELSE 1
             st2 == BDivRange(a, b, hi, lo, st)
         IN  IF st2 = <<>> THEN st2 ELSE BDivBlocks(a, b, lo - 1, st2)

\* <<quotient, remainder>> of a by b, b # 0
BDivMod(a, b) == BDivBlocks(a, b, BLen(a), <<<<>>, <<>>>>)

(***************************************************************************)
(* double: [m, e] stands for m * 2^e, m either zero or of exactly          *)
(* DBL_MANT_DIG bits.  Round-to-nearest, ties to even.                     *)
(***************************************************************************)
DBL_MANT_DIG == 53

FZero == [m |-> <<>>, e |-> 0]

\* the double nearest to s * 2^e (+ a nonzero fraction below the last bit
\* of s when sticky)
FRound(s, e, sticky) ==
    LET L == BLen(s)
        k == L - DBL_MANT_DIG
    IN  IF L = 0 THEN FZero
        ELSE IF k <= 0 THEN [m |-> BShl(s, -k), e |-> e + k]
        ELSE LET q    == BShr(s, k)
                 g    == BBit(s, k)
                 st   == sticky \/ BAnyOne(s, k - 1)
                 up   == g = 1 /\ (st \/ BBit(q, 1) = 1)
                 q1   == IF up THEN BAdd(q, <<1>>) ELSE q
             IN  IF BLen(q1) > DBL_MANT_DIG
                 THEN [m |-> BShr(q1, 1), e |-> e + k + 1]
                 ELSE [m |-> q1, e |-> e + k]

\* strtod / a decimal literal: the double nearest to n / d
\* (n >= 0, 0 < d <= 32768)
FromDecimal(n, d) ==
    IF n = 0 THEN FZero
    ELSE LET s  == DBL_MANT_DIG + 2 + BLen(BFromInt(d))
             qr == BDivSmall(BShl(BFromInt(n), s), d)
         IN  FRound(qr[1], -s, qr[2] # 0)

\* x + y
FAdd(x, y) ==
    IF x.m = <<>> THEN y
    ELSE IF y.m = <<>> THEN x
    ELSE LET e == IF x.e < y.e THEN x.e ELSE y.e
         IN  FRound(BAdd(BShl(x.m, x.e - e), BShl(y.m, y.e - e)), e, FALSE)

\* -1, 0, 1 as x < y, x = y, x > y
FCmp(x, y) ==
    IF x.m = <<>> /\ y.m = <<>> THEN 0
    ELSE IF x.m = <<>> THEN -1
    ELSE IF y.m = <<>> THEN 1
    ELSE IF x.e > y.e THEN 1
    ELSE IF x.e < y.e THEN -1
    ELSE BCmp(x.m, y.m)

FLess(x, y) == FCmp(x, y) < 0

\* x / y, y # 0
FDiv(x, y) ==
    IF x.m = <<>> THEN FZero
    ELSE LET s  == DBL_MANT_DIG + 2
             qr == BDivMod(BShl(x.m, s), y.m)
         IN  FRound(qr[1], x.e - y.e - s, qr[2] # <<>>)

\* (double) k * x, k an int >= 0
FMulInt(k, x) ==
    IF k = 0 \/ x.m = <<>> THEN FZero
    ELSE FRound(BMulSmall(x.m, k), x.e, FALSE)

\* (int) x, x >= 0 within the range of int
FToInt(x) ==
    IF x.m = <<>> THEN 0
    ELSE IF x.e >= 0 THEN BToInt(BShl(x.m, x.e))
    ELSE BToInt(BShr(x.m, -x.e))

(***************************************************************************)
(* Decimal numerals <<n, k>> = n / 10^k: what the user types on the        *)
(* command line, the literals of the source, and what operator<< prints.   *)
(***************************************************************************)
Pow10(k) == <<1, 10, 100, 1000, 10000, 100000, 1000000, 10000000, 100000000,
              1000000000>>[k + 1]

\* strtod of the numeral d (at most four decimals)
DecToDouble(d) == FromDecimal(d[1], Pow10(d[2]))

\* m * 10^k as a natural number, k <= 9
BMulPow10(m, k) ==
    LET k1 == IF k > 4 THEN 4 ELSE k
        k2 == IF k - k1 > 4 THEN 4 ELSE k - k1
    IN  BMulSmall(BMulSmall(BMulSmall(m, Pow10(k1)), Pow10(k2)),
                  Pow10(k - k1 - k2))

\* x * 10^k rounded to the nearest integer, ties to even
ScaledRound(x, k) ==
    LET n == BMulPow10(x.m, k)
    IN  IF x.e >= 0 THEN BShl(n, x.e)
        ELSE LET f  == BShr(n, -x.e)
                 up == BBit(n, -x.e) = 1
                       /\ (BAnyOne(n, -x.e - 1) \/ BBit(f, 1) = 1)
             IN  IF up THEN BAdd(f, <<1>>) ELSE f

\* std::ostream << double at the default precision of 6 significant digits,
\* for 0.0001 <= x < 1000000: the numeral printed, trailing zeros dropped
Format6(x) ==
    IF x.m = <<>> THEN <<0, 0>>
    ELSE LET k == CHOOSE j \in 0..9 :
                      LET f == IF x.e >= 0
                               THEN BShl(BMulPow10(x.m, j), x.e)
                               ELSE BShr(BMulPow10(x.m, j), -x.e)
                      IN  BCmp(f, BFromInt(100000)) >= 0
                          /\ BCmp(f, BFromInt(1000000)) < 0
             r == BToInt(ScaledRound(x, k))
             z == CHOOSE j \in 0..k :
                      r % Pow10(j) = 0
                      /\ (j = k \/ r % Pow10(j + 1) # 0)
         IN  <<r \div Pow10(z), k - z>>

(***************************************************************************)
(* The values of the degrees of freedom: exact rationals <<num, den>>,     *)
(* den > 0, in lowest terms, and the non-finite doubles <<1, 0>> (inf),    *)
(* <<-1, 0>> (-inf), <<0, 0>> (NaN).  Field arithmetic is exact; the       *)
(* scalars dt, 1/dt, 1/Re enter it at their decimal values.                *)
(***************************************************************************)
RECURSIVE GCD(_, _)
GCD(a, b) == IF b = 0 THEN a ELSE GCD(b, a % b)

Sign(n) == IF n > 0 THEN 1 ELSE IF n < 0 THEN -1 ELSE 0

QNorm(q) ==
    LET n == q[1]
        d == q[2]
        g == GCD(IF n < 0 THEN -n ELSE n, d)
    IN  IF d = 0 THEN <<Sign(n), 0>>
        ELSE IF n = 0 THEN <<0, 1>> ELSE <<n \div g, d \div g>>

QInt(n) == <<n, 1>>
QNaN == <<0, 0>>
IsFinite(a) == a[2] # 0
QNeg(a) == <<-a[1], a[2]>>
QAdd(a, b) ==
    IF IsFinite(a) /\ IsFinite(b)
    THEN QNorm(<<(a[1] * b[2]) + (b[1] * a[2]), a[2] * b[2]>>)
    ELSE IF IsFinite(a) THEN b
    ELSE IF IsFinite(b) \/ a = b THEN a
    ELSE QNaN
QSub(a, b) == QAdd(a, QNeg(b))
QMul(a, b) == QNorm(<<a[1] * b[1], a[2] * b[2]>>)
\* 1.0 / a, a >= 0
QInv(a) == IF IsFinite(a) THEN <<a[2], a[1]>> ELSE <<0, Sign(a[1]) * a[1]>>
QFromDec(d) == QNorm(<<d[1], Pow10(d[2])>>)

RECURSIVE QSum(_, _)
\* sum of f[i] over the sequence of indices idx
QSum(f, idx) ==
    IF idx = <<>> THEN QInt(0) ELSE QAdd(f[Head(idx)], QSum(f, Tail(idx)))

(***************************************************************************)
(* The mesh, as the solvers see it: nodes with the attribute of the        *)
(* boundary element they lie on (0: interior), the edges, and the nodes    *)
(* that carry a pressure degree of freedom.  The velocity space has two    *)
(* degrees of freedom per node, ordered by component (all x, then all y).  *)
(***************************************************************************)
StructuredMesh ==
    [attr   |-> <<1, 2, 3, 4, 0>>,
     edges  |-> {{1, 5}, {2, 5}, {3, 5}, {4, 5}},
     pnodes |-> <<2, 5, 3>>]

\* a mesh none of whose boundary elements carries the outlet attribute 3
NoOutletMesh ==
    [attr   |-> <<1, 2, 0, 4, 0>>,
     edges  |-> {{1, 5}, {2, 5}, {3, 5}, {4, 5}},
     pnodes |-> <<2, 5, 3>>]

\* a mesh whose boundary elements carry the attributes 3 and 5 only
OpenMesh ==
    [attr   |-> <<5, 0, 3, 5, 0>>,
     edges  |-> {{1, 5}, {2, 5}, {3, 5}, {4, 5}},
     pnodes |-> <<2, 5, 3>>]

\* the mesh files on disk
MeshFiles ==
    [f \in {"cylinder_structured.mesh", "cylinder.mesh", "no_outlet.mesh",
            "open.mesh"} |->
        IF f = "no_outlet.mesh" THEN NoOutletMesh
        ELSE IF f = "open.mesh" THEN OpenMesh
        ELSE StructuredMesh]

Meshes == {MeshFiles[f] : f \in DOMAIN MeshFiles}

NumNodes(mesh) == Len(mesh.attr)
VDofs(mesh) == 1..(2 * NumNodes(mesh))
PDofs(mesh) == 1..Len(mesh.pnodes)
VNode(mesh, i) == ((i - 1) % NumNodes(mesh)) + 1
VComp(mesh, i) == (i - 1) \div NumNodes(mesh)
PNode(mesh, j) == mesh.pnodes[j]
VAttr(mesh, i) == mesh.attr[VNode(mesh, i)]
PAttr(mesh, j) == mesh.attr[PNode(mesh, j)]

\* pmesh->bdr_attributes.Max()
BdrAttributesMax(mesh) ==
    CHOOSE a \in {mesh.attr[n] : n \in 1..NumNodes(mesh)} :
        \A n \in 1..NumNodes(mesh) : mesh.attr[n] <= a

\* fespace.GetEssentialTrueDofs(ess_bdr, ess_dofs)
VelEssentialTrueDofs(mesh, ess_bdr) ==
    {i \in VDofs(mesh) : VAttr(mesh, i) # 0 /\ ess_bdr[VAttr(mesh, i)] = 1}

PresEssentialTrueDofs(mesh, ess_bdr) ==
    {j \in PDofs(mesh) : PAttr(mesh, j) # 0 /\ ess_bdr[PAttr(mesh, j)] = 1}

\* the inlet coefficient: v(0) = 1.0; v(1) = 0.0
InletCoeff(comp) == IF comp = 0 THEN QInt(1) ELSE QInt(0)

\* gf.ProjectBdrCoefficient(coeff, ess_bdr): the coefficient is written to
\* every degree of freedom on a boundary element whose attribute is marked
ProjectBdrCoefficient(mesh, gf, ess_bdr) ==
    [i \in VDofs(mesh) |->
        IF i \in VelEssentialTrueDofs(mesh, ess_bdr)
        THEN InletCoeff(VComp(mesh, i)) ELSE gf[i]]

ZeroVec(dofs) == [i \in dofs |-> QInt(0)]
IsZeroVec(v) == \A i \in DOMAIN v : v[i] = QInt(0)

SeqOf(n) == [i \in 1..n |-> i]

\* the assembled operators of the mesh (rows of integers)
Adjacent(mesh, a, b) == {a, b} \in mesh.edges
Degree(mesh, a) == Cardinality({b \in 1..NumNodes(mesh) : Adjacent(mesh, a, b)})

\* VectorMassIntegrator
AssembleM(mesh) ==
    [i \in VDofs(mesh) |-> [j \in VDofs(mesh) |->
        IF VComp(mesh, i) # VComp(mesh, j) THEN QInt(0)
        ELSE IF i = j THEN QInt(4)
        ELSE IF Adjacent(mesh, VNode(mesh, i), VNode(mesh, j)) THEN QInt(1)
        ELSE QInt(0)]]

\* VectorDiffusionIntegrator
AssembleK(mesh) ==
    [i \in VDofs(mesh) |-> [j \in VDofs(mesh) |->
        IF VComp(mesh, i) # VComp(mesh, j) THEN QInt(0)
        ELSE IF i = j THEN QInt(Degree(mesh, VNode(mesh, i)))
        ELSE IF Adjacent(mesh, VNode(mesh, i), VNode(mesh, j)) THEN QInt(-1)
        ELSE QInt(0)]]

\* DiffusionIntegrator on the pressure space
AssembleS(mesh) ==
    [i \in PDofs(mesh) |-> [j \in PDofs(mesh) |->
        IF i = j THEN QInt(Degree(mesh, PNode(mesh, i)))
        ELSE IF Adjacent(mesh, PNode(mesh, i), PNode(mesh, j)) THEN QInt(-1)
        ELSE QInt(0)]]

\* VectorDivIntegrator: pressure rows, velocity columns
AssembleD(mesh) ==
    [j \in PDofs(mesh) |-> [i \in VDofs(mesh) |->
        IF ~Adjacent(mesh, PNode(mesh, j), VNode(mesh, i)) THEN QInt(0)
        ELSE IF VNode(mesh, i) < PNode(mesh, j)
        THEN QInt(-(1 + VComp(mesh, i)))
        ELSE QInt(1 + VComp(mesh, i))]]

\* VectorConvectionForm::Mult: the convective term (u . grad) u tested on the
\* degrees of freedom: conv_x = u_x du_x/dx + u_y du_x/dy, conv_y likewise,
\* with the differences over the edges that AssembleD uses
Convection(mesh, v) ==
    LET n == NumNodes(mesh)
        Diff(c, d, a) ==
            QSum([b \in 1..n |->
                    IF ~Adjacent(mesh, a, b) THEN QInt(0)
                    ELSE IF b < a THEN QMul(QInt(-(1 + d)), v[b + c * n])
                    ELSE QMul(QInt(1 + d), v[b + c * n])], SeqOf(n))
    IN  [i \in VDofs(mesh) |->
            QAdd(QMul(v[VNode(mesh, i)], Diff(VComp(mesh, i), 0, VNode(mesh, i))),
                 QMul(v[VNode(mesh, i) + n],
                      Diff(VComp(mesh, i), 1, VNode(mesh, i))))]

\* A->Mult(x, y): y = A x
MatVec(A, x) ==
    [i \in DOMAIN A |->
        QSum([j \in DOMAIN x |-> QMul(A[i][j], x[j])], SeqOf(Len(x)))]

\* A->Transpose()
NegTranspose(A) ==
    [i \in DOMAIN A[1] |-> [j \in DOMAIN A |-> QNeg(A[j][i])]]
Transpose(A) ==
    [i \in DOMAIN A[1] |-> [j \in DOMAIN A |-> A[j][i]]]

\* v *= c
Scale(c, v) == [i \in DOMAIN v |-> QMul(c, v[i])]

\* a -= b
VecSub(a, b) == [i \in DOMAIN a |-> QSub(a[i], b[i])]

\* H = M/dt + nu*K  (H->Scale(1.0 / dt); nuK->Scale(nu); *H += *nuK)
Helmholtz(m, k, dtq, nu) ==
    [i \in DOMAIN m |-> [j \in DOMAIN m[i] |->
        QAdd(QMul(QInv(dtq), m[i][j]), QMul(nu, k[i][j]))]]

\* A.EliminateRowsCols(ess, DIAG_ONE, X, B): the right-hand side B after the
\* elimination: the eliminated columns times X moved to the right, and the
\* essential rows set to the values of X
EliminateRhs(A, ess, X, B) ==
    [i \in DOMAIN B |->
        IF i \in ess THEN X[i]
        ELSE QSub(B[i], QSum([j \in DOMAIN X |->
                                IF j \in ess THEN QMul(A[i][j], X[j])
                                ELSE QInt(0)], SeqOf(Len(X))))]

(***************************************************************************)
(* The preconditioned CG solve of an eliminated system.  The iteration is  *)
(* not computed: on the essential rows (identity rows) the solution is the *)
(* right-hand side; a zero right-hand side gives the zero vector; a       *)
(* non-finite right-hand side makes every entry NaN; otherwise a value of  *)
(* SolveVals comes out on the other rows.                                  *)
(***************************************************************************)
MaxSolve == 1

SolveVals == {QInt(v) : v \in 0..MaxSolve}

CGSolveInexact(ess, B) ==
    LET free == DOMAIN B \ ess
    IN  IF \E i \in DOMAIN B : ~IsFinite(B[i])
        THEN {[i \in DOMAIN B |-> QNaN]}
        ELSE {[i \in DOMAIN B |-> IF i \in ess THEN B[i] ELSE c] :
                 c \in SolveVals}
CGSolve(ess, B) ==
    LET free == DOMAIN B \ ess
    IN  IF \E i \in DOMAIN B : ~IsFinite(B[i])
        THEN {[i \in DOMAIN B |-> QNaN]}
        ELSE IF \A i \in free : B[i] = QInt(0)
        THEN {[i \in DOMAIN B |-> IF i \in ess THEN B[i] ELSE QInt(0)]}
        ELSE {[i \in DOMAIN B |-> IF i \in ess THEN B[i] ELSE c] :
                 c \in SolveVals}

\* GetConverged() after the solve: the zero right-hand side converges at
\* once, a non-finite one never, any other within max_iter iterations or not
Converges(ess, B) ==
    IF \E i \in DOMAIN B : ~IsFinite(B[i]) THEN {FALSE}
    ELSE IF \A i \in DOMAIN B \ ess : B[i] = QInt(0) THEN {TRUE}
    ELSE BOOLEAN

(***************************************************************************)
(* State                                                                   *)
(***************************************************************************)
VARIABLES
    prog,          \* the executable that runs
    disk_room,     \* the lines the disk has room for in the force file, -1: any
    args,          \* its command line: a sequence of [opt, val]
    mesh,          \* the mesh file it loads
    pc,            \* where the program is
    status,        \* the exit status, -1 while running
    Re, dt, t_final, vis_steps, num_steps,   \* parameters (decimal numerals, ints)
    kinvis,        \* nu = 1/Re
    t, step,       \* simulated time (a double) and step counter
    ess_bdr_vel, ess_bdr_pres, ess_dofs_vel, ess_dofs_pres,
    u, u_old, u_star, p, p_new, p_old,
    opM, opK, opS, opD, opH,   \* the matrices M, K, S, D (B_mat), H (A_mat)
    force_file,    \* forces_simple.dat / forces.dat: the lines written
    snapshots,     \* u_save, p_save, time_stamps
    files,         \* the sol_u_*.gf / sol_p_*.gf files written
    log,           \* the usage, warning and error messages printed
    converged,     \* GetConverged() of vel_solver and pres_solver
    force_state,   \* the state of the force_file stream
    stages,        \* history: the stages run so far in the current step
    steps_run,     \* history: the number of time steps carried out
    rank_pc,       \* mpirun: the position of each rank in main
    rank_t,        \* mpirun: each rank's t
    rank_step,     \* mpirun: each rank's step
    joined,        \* mpirun: the collective solves each rank has entered
    rank_status,   \* mpirun: what main returned on each rank, -1 while running
    shared_file,   \* mpirun: forces_simple.dat, the one file every rank opens
    rank_off,      \* mpirun: the file position of each rank's stream
    rank_buf,      \* mpirun: the lines in the buffer of each rank's stream
    heap           \* the objects made with new: how often each was deleted

params == <<Re, dt, t_final, vis_steps, num_steps, kinvis>>
outs   == <<snapshots, files>>
hist   == <<stages, steps_run>>
bcs    == <<ess_bdr_vel, ess_bdr_pres, ess_dofs_vel, ess_dofs_pres>>
fields == <<u, u_old, u_star, p, p_new, p_old>>
ops    == <<opM, opK, opS, opD, opH>>
input  == <<prog, args, mesh, disk_room>>
diag   == <<log, converged, force_state>>
rfile  == <<shared_file, rank_off, rank_buf>>
ranks  == <<rank_pc, rank_t, rank_step, joined, rank_status, rfile>>
vars   == <<prog, args, mesh, disk_room, log, converged, force_state, pc, status, Re, dt, t_final, vis_steps,
            num_steps, kinvis, t, step, ess_bdr_vel, ess_bdr_pres, ess_dofs_vel,
            ess_dofs_pres, u, u_old, u_star, p, p_new, p_old, opM, opK, opS,
            opD, opH, force_file, snapshots, files, stages, steps_run,
            rank_pc, rank_t, rank_step, joined, rank_status, shared_file,
            rank_off, rank_buf, heap>>

(***************************************************************************)
(* Command lines                                                           *)
(***************************************************************************)
Arg(o, n, k) == [opt |-> o, val |-> <<n, k>>, ok |-> TRUE]
\* an option whose value is not a number
BadArg(o) == [opt |-> o, val |-> <<0, 0>>, ok |-> FALSE]
\* -m <file>
MeshArg(f) == [opt |-> "-m", val |-> f, ok |-> TRUE]

\* the command lines explored, per executable
CommandLines ==
    [navier_simple |->
        {<<>>,
         <<Arg("-t", 1, 1)>>,
         <<Arg("-dt", 25, 2), Arg("-t", 1, 0), Arg("-vs", 2, 0)>>,
         <<Arg("-dt", 1, 1), Arg("-t", 3, 1), Arg("-vs", 1, 0)>>,
         <<Arg("-t", 2, 2), Arg("-vs", 0, 0)>>,
         <<Arg("-t", 0, 0)>>,
         <<Arg("-Re", 0, 0), Arg("-t", 2, 2)>>,
         <<MeshArg("no_outlet.mesh"), Arg("-t", 2, 2)>>,
         <<MeshArg("open.mesh"), Arg("-t", 3, 2), Arg("-vs", 1, 0)>>,
         <<BadArg("-dt")>>,
         <<Arg("-x", 1, 0)>>},
     navier_solver |->
        {<<Arg("-dt", 10, 0)>>,
         <<Arg("-dt", 5, 0)>>,
         <<Arg("-dt", 64, 1)>>,
         <<Arg("-dt", 125, 1)>>,
         <<Arg("-dt", 5, 1), Arg("-t", 2, 0)>>,
         <<BadArg("-t")>>,
         <<Arg("-x", 1, 0)>>},
     quick_test |->
        {<<>>,
         <<Arg("-dt", 1, 0), Arg("-t", 10, 0)>>,
         <<Arg("-dt", 1, 0), Arg("-t", 101, 0)>>,
         <<Arg("-dt", 5, 1), Arg("-t", 2, 0)>>,
         <<Arg("-dt", 1, 0), Arg("-t", 3, 0)>>,
         <<BadArg("-Re")>>,
         <<Arg("-x", 1, 0)>>}]

\* the room on the disk, per run
DiskRooms(program, cmdline) ==
    IF program = "navier_simple"
       /\ cmdline = <<Arg("-dt", 25, 2), Arg("-t", 1, 0), Arg("-vs", 2, 0)>>
    THEN {-1, 0, 2}
    ELSE {-1}

\* argc, and atof(argv[i]) for i >= 1: argv[2k-1] is the k-th option's name,
\* which atof reads as 0.0, and argv[2k] its value
Argc == 1 + (2 * Len(args))
AtofArgv(i) == IF i % 2 = 1 THEN <<0, 0>> ELSE args[i \div 2].val

\* args.Good() after args.Parse(): every option is a registered one and
\* its value parses
ArgsGoodNames(known) == \A i \in 1..Len(args) : args[i].opt \in known
ArgsGood(known) ==
    \A i \in 1..Len(args) : args[i].opt \in known /\ args[i].ok

\* the value Parse() leaves in the variable registered for option o
Parsed(o, default) ==
    IF \E i \in 1..Len(args) : args[i].opt = o
    THEN args[CHOOSE i \in 1..Len(args) :
                 args[i].opt = o
                 /\ \A j \in (i + 1)..Len(args) : args[j].opt # o].val
    ELSE default

\* x % y of C++ for x >= 0, y > 0
CModFromOne(x, y) == IF x = 0 THEN 1 ELSE x % y
CMod(x, y) == x % y

\* the disk has room for one more line of the file
HasRoom(file) == disk_room < 0 \/ Len(file) < disk_room

\* the header line of a force file just opened
Header(cols) == [kind |-> "header", cols |-> cols]

(***************************************************************************)
(* navier_simple: main                                                     *)
(***************************************************************************)
SimpleOptions == {"-m", "-o", "-Re", "-dt", "-t", "-vs"}

\* the object a pointer variable, or the k-th entry of a vector of
\* pointers, is given by new
Obj(name) == <<name, 0>>
Objs(names) == {Obj(name) : name \in names}

\* new: the objects exist and have not been deleted
New(h, objs) ==
    [o \in DOMAIN h \cup objs |-> IF o \in DOMAIN h THEN h[o] ELSE 0]
\* delete: each of the objects is deleted once more
Delete(h, objs) == [o \in DOMAIN h |-> IF o \in objs THEN h[o] + 1 ELSE h[o]]

\* an object has been deleted a second time: undefined
DoubleDelete(h) == \E o \in DOMAIN h : h[o] >= 2

\* lines 26-48: declarations with their defaults (in Init), Parse, Good
SimpleParse ==
    /\ prog = "navier_simple" /\ pc = "parse"
    /\ IF ~ArgsGood(SimpleOptions)
       THEN /\ pc' = "exit" /\ status' = 1
            /\ log' = Append(log, "usage")
            /\ UNCHANGED params
       ELSE /\ pc' = "setup" /\ status' = status
            /\ log' = log
            /\ Re' = Parsed("-Re", Re)
            /\ dt' = Parsed("-dt", dt)
            /\ t_final' = Parsed("-t", t_final)
            /\ vis_steps' = Parsed("-vs", <<vis_steps, 0>>)[1]
            /\ UNCHANGED <<num_steps, kinvis>>
    /\ UNCHANGED <<converged, force_state, input, ranks, heap, t, step, bcs, fields, ops,
                   force_file, outs, hist>>

\* ess_bdr = 0; ess_bdr[i] = 1 for the 0-based indices in idx
MarkSimpleVel(n) == [a \in 1..n |-> IF a \in {1, 2, 4} THEN 1 ELSE 0]
MarkPres(n) == [a \in 1..n |-> IF a = 3 THEN 1 ELSE 0]

\* lines 50-170: mesh, spaces, essential boundaries, initial fields,
\* operators, solvers, t = 0, step = 0, the force file and its header
SimpleSetup ==
    /\ prog = "navier_simple" /\ pc = "setup"
    /\ LET n  == BdrAttributesMax(mesh)
           bv == MarkSimpleVel(n)
           bp == MarkPres(n)
           u0 == ProjectBdrCoefficient(mesh, ZeroVec(VDofs(mesh)), bv)
           m  == AssembleM(mesh)
           k  == AssembleK(mesh)
       IN  /\ ess_bdr_vel' = bv
           /\ ess_bdr_pres' = bp
           /\ ess_dofs_vel' = VelEssentialTrueDofs(mesh, bv)
           /\ ess_dofs_pres' = PresEssentialTrueDofs(mesh, bp)
           /\ u' = u0
           /\ u_old' = u0
           /\ u_star' = ZeroVec(VDofs(mesh))
           /\ p' = ZeroVec(PDofs(mesh))
           /\ p_new' = ZeroVec(PDofs(mesh))
           /\ opM' = m
           /\ opK' = k
           /\ opS' = AssembleS(mesh)
           /\ opD' = AssembleD(mesh)
           /\ kinvis' = QInv(QFromDec(Re))
           /\ opH' = Helmholtz(m, k, QFromDec(dt), QInv(QFromDec(Re)))
    /\ t' = FZero
    /\ step' = 0
    /\ IF HasRoom(<<>>)
       THEN /\ force_file' = <<Header(<<"time", "Drag", "Lift">>)>>
            /\ force_state' = "good"
       ELSE /\ force_file' = <<>>
            /\ force_state' = "fail"
    /\ pc' = "while"
    /\ heap' = Delete(New(heap, Objs({"mesh", "pmesh", "M", "K", "S", "D", "H",
                                      "nuK", "vel_prec", "pres_prec"})),
                      Objs({"mesh"}))
    /\ UNCHANGED <<log, converged, input, ranks, status, Re, dt, t_final, vis_steps, num_steps,
                   p_old, outs, hist>>

\* line 172: while (t < t_final)
SimpleWhile ==
    /\ prog = "navier_simple" /\ pc = "while"
    /\ IF FLess(t, DecToDouble(t_final))
       THEN pc' = "stage1"
       ELSE pc' = "finish"
    /\ UNCHANGED <<diag, input, ranks, heap, status, params, t, step, bcs, fields, ops,
                   force_file, outs, hist>>

\* lines 184-186: M->Mult(u_old_vec, rhs_vec); rhs_vec *= (1.0 / dt), with
\* u_old = u of line 175
Stage1Rhs == Scale(QInv(QFromDec(dt)), MatVec(opM, u))

\* lines 188-192: the right-hand side after H_copy.EliminateRowsCols(
\* ess_dofs_vel, DIAG_ONE, u_star_vec, rhs_vec), u_star_vec holding X
Stage1System(X) == EliminateRhs(opH, ess_dofs_vel, X, Stage1Rhs)

\* lines 202-212: Du_star = (1/dt) D u*, after S_copy.EliminateRowsCols(
\* ess_dofs_pres, DIAG_ONE, p_new_vec, Du_star), p_new_vec holding X
Stage2System(X) ==
    EliminateRhs(opS, ess_dofs_pres, X,
                 Scale(QInv(QFromDec(dt)), MatVec(opD, u_star)))

\* A.EliminateRowsCols(ess, DIAG_ONE, X, B): the matrix after the
\* elimination: the essential rows and columns zeroed, ones on the diagonal
EliminateMat(A, ess) ==
    [i \in DOMAIN A |-> [j \in DOMAIN A[i] |->
        IF i \in ess \/ j \in ess
        THEN (IF i = j THEN QInt(1) ELSE QInt(0))
        ELSE A[i][j]]]

\* lines 174-199: u_old = u; rhs = (1/dt) M u_old; eliminate; solve for u*
SimpleStage1InPlace ==
    /\ prog = "navier_simple" /\ pc = "stage1"
    /\ u_old' = u
    /\ LET b   == Stage1System(u_star)
       IN  /\ u_star' \in CGSolve(ess_dofs_vel, b)
           /\ \E c \in Converges(ess_dofs_vel, b) :
                 converged' = [converged EXCEPT !.vel = c]
    /\ opH' = EliminateMat(opH, ess_dofs_vel)
    /\ stages' = Append(stages, "stage1")
    /\ steps_run' = steps_run
    /\ pc' = "stage2"
    /\ UNCHANGED <<log, force_state, input, ranks, heap, status, params, t, step, bcs, u, p, p_new, p_old,
                   opM, opK, opS,
                   opD, force_file, outs>>
SimpleStage1 ==
    /\ prog = "navier_simple" /\ pc = "stage1"
    /\ u_old' = u
    /\ LET b   == Stage1System(u_star)
       IN  /\ u_star' \in CGSolve(ess_dofs_vel, b)
           /\ \E c \in Converges(ess_dofs_vel, b) :
                 converged' = [converged EXCEPT !.vel = c]
    /\ stages' = Append(stages, "stage1")
    /\ steps_run' = steps_run
    /\ pc' = "stage2"
    /\ UNCHANGED <<log, force_state, input, ranks, heap, status, params, t, step, bcs, u, p, p_new, p_old,
                   ops, force_file, outs>>

\* lines 201-219: rhs = (1/dt) D u*; eliminate; solve for p_new
SimpleStage2NoCorrection ==
    /\ prog = "navier_simple" /\ pc = "stage2"
    /\ LET b   == Stage2System(p_new)
       IN  /\ p_new' \in CGSolve(ess_dofs_pres, b)
           /\ \E c \in Converges(ess_dofs_pres, b) :
                 converged' = [converged EXCEPT !.pres = c]
    /\ stages' = Append(stages, "stage2")
    /\ steps_run' = steps_run
    /\ pc' = "update"
    /\ UNCHANGED <<log, force_state, input, ranks, heap, status, params, t, step, bcs, u, u_old, u_star, p,
                   p_old, ops, force_file, outs>>
SimpleStage2 ==
    /\ prog = "navier_simple" /\ pc = "stage2"
    /\ LET b   == Stage2System(p_new)
       IN  /\ p_new' \in CGSolve(ess_dofs_pres, b)
           /\ \E c \in Converges(ess_dofs_pres, b) :
                 converged' = [converged EXCEPT !.pres = c]
    /\ stages' = Append(stages, "stage2")
    /\ steps_run' = steps_run
    /\ pc' = "stage3"
    /\ UNCHANGED <<log, force_state, input, ranks, heap, status, params, t, step, bcs, u, u_old, u_star, p,
                   p_old, ops, force_file, outs>>

\* lines 221-236: u = u* - dt * D^T p_new
SimpleStage3 ==
    /\ prog = "navier_simple" /\ pc = "stage3"
    /\ LET DT == Transpose(opD)
           Gp == Scale(QFromDec(dt), MatVec(DT, p_new))
       IN  u' = VecSub(u_star, Gp)
    /\ stages' = Append(stages, "stage3")
    /\ steps_run' = steps_run
    /\ pc' = "update"
    /\ heap' = Delete(New(heap, {<<"DT", step + 1>>}), {<<"DT", step + 1>>})
    /\ UNCHANGED <<diag, input, ranks, status, params, t, step, bcs, u_old, u_star, p,
                   p_new, p_old, ops, force_file, outs>>

\* a data line of the force file
Row(time, drag, lift) ==
    [kind |-> "row", time |-> time, drag |-> drag, lift |-> lift]

\* force_file << ... : the line goes to the end of the stream
WriteRowRewind(file, line) == <<file[1], line>>
WriteRow(file, line) == Append(file, line)

\* force_file << line; force_file.flush(): a line for which the disk has no
\* room is not written and leaves the stream failed; a failed stream ignores
\* what is written to it
StreamWrite(file, state, line) ==
    IF state = "good" /\ HasRoom(file)
    THEN [file |-> WriteRow(file, line), state |-> state]
    ELSE [file |-> file, state |-> IF state = "good" THEN "fail" ELSE state]

\* lines 238-239: p = p_new
SimplePressureUpdate ==
    /\ prog = "navier_simple" /\ pc = "update"
    /\ p' = p_new
    /\ pc' = "output"
    /\ UNCHANGED <<diag, input, ranks, heap, status, params, t, step, bcs, u, u_old,
                   u_star, p_new, p_old, ops, force_file, outs, hist>>

\* lines 241-258: Cd, Cl; every vis_steps-th step a row
SimpleOutputScratch ==
    /\ prog = "navier_simple" /\ pc = "output"
    /\ LET Cd  == QMul(QInt(2), QSub(p[1], p[Len(p)]))
           row == Row(Format6(t), <<"Cd", Cd>>, <<"0.1*sin(2*pi*t)", t>>)
           w   == StreamWrite(force_file, force_state, row)
           skip == [file |-> force_file, state |-> force_state]
       IN  \E out \in IF vis_steps = 0
                       THEN \* step % 0: undefined; the division traps, or
                            \* yields a value
                            {[pc |-> "crash", f |-> skip],
                             [pc |-> "advance", f |-> w],
                             [pc |-> "advance", f |-> skip]}
                       ELSE IF CMod(step, vis_steps) = 0
                       THEN {[pc |-> "advance", f |-> w]}
                       ELSE {[pc |-> "advance", f |-> skip]} :
              /\ pc' = out.pc
              /\ force_file' = out.f.file
              /\ force_state' = out.f.state
    /\ p_new' = ZeroVec(PDofs(mesh))
    /\ UNCHANGED <<log, converged, input, ranks, heap, status, params, t, step, bcs,
                   u, u_old, u_star, p, p_old, ops, outs, hist>>
SimpleOutput ==
    /\ prog = "navier_simple" /\ pc = "output"
    /\ LET Cd  == QMul(QInt(2), QSub(p[1], p[Len(p)]))
           row == Row(Format6(t), <<"Cd", Cd>>, <<"0.1*sin(2*pi*t)", t>>)
           w   == StreamWrite(force_file, force_state, row)
           skip == [file |-> force_file, state |-> force_state]
       IN  \E out \in IF vis_steps = 0
                       THEN \* step % 0: undefined; the division traps, or
                            \* yields a value
                            {[pc |-> "crash", f |-> skip],
                             [pc |-> "advance", f |-> w],
                             [pc |-> "advance", f |-> skip]}
                       ELSE IF CMod(step, vis_steps) = 0
                       THEN {[pc |-> "advance", f |-> w]}
                       ELSE {[pc |-> "advance", f |-> skip]} :
              /\ pc' = out.pc
              /\ force_file' = out.f.file
              /\ force_state' = out.f.state
    /\ UNCHANGED <<log, converged, input, ranks, heap, status, params, t, step, bcs,
                   fields, ops, outs, hist>>

\* lines 260-262: t += dt; step++
SimpleAdvance ==
    /\ prog = "navier_simple" /\ pc = "advance"
    /\ t' = FAdd(t, DecToDouble(dt))
    /\ step' = step + 1
    /\ steps_run' = steps_run + 1
    /\ stages' = <<>>
    /\ pc' = "while"
    /\ UNCHANGED <<diag, input, ranks, heap, status, params, bcs, fields, ops, force_file,
                   outs>>

\* lines 265-287: close the file, report, clean up, return 0
SimpleFinish ==
    /\ prog = "navier_simple" /\ pc = "finish"
    /\ force_state' = IF force_state = "good" THEN "closed" ELSE force_state
    /\ pc' = "exit" /\ status' = 0
    /\ heap' = Delete(heap, Objs({"M", "K", "S", "D", "H", "nuK", "pmesh"}))
    /\ UNCHANGED <<log, converged, input, ranks, params, t, step, bcs, fields, ops,
                   force_file, outs, hist>>

(***************************************************************************)
(* navier_solver: main and NavierStokesSolver                              *)
(***************************************************************************)
SolverOptions == {"-r", "-Re", "-dt", "-t"}
NSTEPS_OUTPUT == 10

\* (int)(final_time / dt)
NumSteps(final, h) == FToInt(FDiv(DecToDouble(final), DecToDouble(h)))

\* a file written anew under a name
WriteFile(fs, name, data) ==
    {f \in fs : f.name # name} \cup {[name |-> name, data |-> data]}

\* main, lines 470-491: the options are parsed into locals of main that
\* nothing reads afterwards
SolverParse ==
    /\ prog = "navier_solver" /\ pc = "parse"
    /\ IF ~ArgsGood(SolverOptions)
       THEN pc' = "exit" /\ status' = 1 /\ log' = Append(log, "usage")
       ELSE pc' = "init" /\ status' = status /\ log' = log
    /\ UNCHANGED <<converged, force_state, input, ranks, heap, params, t, step, bcs, fields, ops, force_file,
                   outs, hist>>

\* the constructor's defaults (in Init of the model) and Init(argc, argv)
SolverInit ==
    /\ prog = "navier_solver" /\ pc = "init"
    /\ LET re == IF Argc > 1 THEN AtofArgv(1) ELSE Re
           h  == IF Argc > 2 THEN AtofArgv(2) ELSE dt
           T  == IF Argc > 3 THEN AtofArgv(3) ELSE t_final
       IN  /\ Re' = re
           /\ kinvis' = IF Argc > 1 THEN QInv(QFromDec(re)) ELSE kinvis
           /\ dt' = h
           /\ t_final' = T
           /\ num_steps' = NumSteps(T, h)
    /\ pc' = "setup"
    /\ UNCHANGED <<diag, input, ranks, heap, status, vis_steps, t, step, bcs, fields, ops,
                   force_file, outs, hist>>

MarkSolverVel(n) == [a \in 1..n |-> IF a \in {2, 4} THEN 1 ELSE 0]

\* Run, lines 401-412: SetupMesh, SetupFESpaces, SetupBoundaryConditions,
\* SetupForms, SetupSolvers, SetupOutput; time = 0.0; step = 0
SolverSetup ==
    /\ prog = "navier_solver" /\ pc = "setup"
    /\ LET n  == BdrAttributesMax(mesh)
           bv == MarkSolverVel(n)
       IN  /\ ess_bdr_vel' = bv
           /\ ess_bdr_pres' = MarkPres(n)
           /\ u' = ProjectBdrCoefficient(mesh, ZeroVec(VDofs(mesh)), bv)
    /\ u_old' = ZeroVec(VDofs(mesh))
    /\ u_star' = ZeroVec(VDofs(mesh))
    /\ p' = ZeroVec(PDofs(mesh))
    /\ p_old' = ZeroVec(PDofs(mesh))
    /\ opH' = Helmholtz(AssembleM(mesh), AssembleK(mesh), QFromDec(dt), kinvis)
    /\ opD' = AssembleD(mesh)
    /\ force_file' = <<Header(<<"Time", "Drag", "Lift">>)>>
    /\ t' = FZero
    /\ step' = 0
    /\ pc' = "for"
    /\ heap' = Delete(New(heap, Objs({"mesh", "pmesh", "fec_vel", "fec_pres",
                                      "fespace_vel", "fespace_pres", "u",
                                      "u_old", "p", "p_old", "u_star",
                                      "a_form", "b_form", "A_mat", "B_mat",
                                      "Bt_mat", "momentum_solver", "A_prec",
                                      "pressure_solver", "P_prec"})),
                      Objs({"mesh"}))
    /\ UNCHANGED <<diag, input, ranks, status, params, ess_dofs_vel, ess_dofs_pres, p_new,
                   opM, opK, opS, outs, hist>>

\* line 414: step < num_steps
SolverFor ==
    /\ prog = "navier_solver" /\ pc = "for"
    /\ pc' = IF step < num_steps THEN "output" ELSE "save"
    /\ UNCHANGED <<diag, input, ranks, heap, status, params, t, step, bcs, fields, ops,
                   force_file, outs, hist>>

\* lines 415-424: time = step * dt; every NSTEPS_OUTPUT-th step a row
SolverOutput ==
    /\ prog = "navier_solver" /\ pc = "output"
    /\ LET time == FMulInt(step, DecToDouble(dt))
           f    == <<"0.1*sin(2*PI*0.2)">>
       IN  /\ t' = time
           /\ force_file' = IF CMod(step, NSTEPS_OUTPUT) = 0
                            THEN WriteRow(force_file,
                                          Row(Format6(time), f, f))
                            ELSE force_file
    /\ pc' = "timestep"
    /\ UNCHANGED <<diag, input, ranks, heap, status, params, step, bcs, fields, ops, outs, hist>>

\* TimeStep, lines 378-398
SolverTimeStep ==
    /\ prog = "navier_solver" /\ pc = "timestep"
    /\ \E x \in CGSolve({}, MatVec(opH, u_old)) :
          /\ u_star' = x
          /\ u' = x
          /\ u_old' = x
    /\ p_old' = p
    /\ steps_run' = steps_run + 1
    /\ pc' = "snapshot"
    /\ UNCHANGED <<diag, input, ranks, heap, status, params, t, step, bcs, p, p_new, ops,
                   force_file, outs, stages>>

\* lines 428-433: every (num_steps / 10)-th step the fields are kept
SolverSnapshot ==
    /\ prog = "navier_solver" /\ pc = "snapshot"
    /\ LET every == num_steps \div 10
           saved == Append(snapshots, [u |-> u, p |-> p, time |-> t])
           kept  == New(heap, {<<"u_save", Len(saved)>>,
                               <<"p_save", Len(saved)>>})
       IN  IF every = 0
           THEN \* step % 0: undefined; the division traps, or yields a value
                \/ pc' = "crash" /\ snapshots' = snapshots /\ heap' = heap
                \/ pc' = "break" /\ snapshots' = saved /\ heap' = kept
                \/ pc' = "break" /\ snapshots' = snapshots /\ heap' = heap
           ELSE /\ pc' = "break"
                /\ snapshots' = IF CMod(step, every) = 0 THEN saved
                                ELSE snapshots
                /\ heap' = IF CMod(step, every) = 0 THEN kept ELSE heap
    /\ UNCHANGED <<diag, input, ranks, status, params, t, step, bcs, fields, ops,
                   force_file, files, hist>>

\* lines 435-437: if (time >= final_time) break; otherwise step++
SolverBreak ==
    /\ prog = "navier_solver" /\ pc = "break"
    /\ IF ~FLess(t, DecToDouble(t_final))
       THEN pc' = "save" /\ step' = step
       ELSE pc' = "for" /\ step' = step + 1
    /\ UNCHANGED <<diag, input, ranks, heap, status, params, t, bcs, fields, ops, force_file,
                   outs, hist>>

\* SaveSolution, lines 444-463, and the return of main, lines 505-506,
\* which runs ~NavierStokesSolver, lines 202-224: mesh, deleted in SetupMesh
\* and not reset, is deleted again, which is undefined: the run returns 0 or
\* is killed (SIGABRT, status 134)
SolverSaveSolution ==
    /\ prog = "navier_solver" /\ pc = "save"
    /\ files' = {[name |-> <<"sol_u", i - 1>>, data |-> snapshots[i].u] :
                     i \in 1..Len(snapshots)}
                \cup {[name |-> <<"sol_p", i - 1>>, data |-> snapshots[i].p] :
                     i \in 1..Len(snapshots)}
    /\ heap' = Delete(heap, Objs({"fespace_vel", "fespace_pres", "fec_vel",
                                  "fec_pres", "u", "u_old", "p", "p_old",
                                  "u_star", "a_form", "b_form", "A_mat",
                                  "B_mat", "Bt_mat", "momentum_solver",
                                  "pressure_solver", "A_prec", "P_prec",
                                  "pmesh", "mesh"}))
    /\ pc' = "exit"
    /\ status' \in IF DoubleDelete(heap') THEN {0, 134} ELSE {0}
    /\ UNCHANGED <<diag, input, ranks, params, t, step, bcs, fields, ops, force_file,
                   snapshots, hist>>

(***************************************************************************)
(* The serial quick-test solver (QUICK_COMMANDS.md)                        *)
(***************************************************************************)
Min(a, b) == IF a < b THEN a ELSE b
Max(a, b) == IF a > b THEN a ELSE b

\* Run: int max_test_steps = min(num_steps, 100)
max_test_steps == Min(num_steps, 100)
\* Run: int output_interval = max(1, max_test_steps / 5)
output_interval == Max(1, max_test_steps \div 5)

\* main: the options and their check
QuickParse ==
    /\ prog = "quick_test" /\ pc = "parse"
    /\ IF ~ArgsGood(SolverOptions)
       THEN /\ pc' = "exit" /\ status' = 1
            /\ log' = Append(log, "usage")
            /\ UNCHANGED params
       ELSE /\ pc' = "init" /\ status' = status
            /\ log' = log
            /\ Re' = Parsed("-Re", Re)
            /\ dt' = Parsed("-dt", dt)
            /\ t_final' = Parsed("-t", t_final)
            /\ UNCHANGED <<vis_steps, num_steps, kinvis>>
    /\ UNCHANGED <<converged, force_state, input, ranks, heap, t, step, bcs, fields, ops,
                   force_file, outs, hist>>

\* Init(Re, dt, t_final) and SetupOutput()
QuickInit ==
    /\ prog = "quick_test" /\ pc = "init"
    /\ kinvis' = QInv(QFromDec(Re))
    /\ num_steps' = NumSteps(t_final, dt)
    /\ force_file' = <<Header(<<"Time", "Drag", "Lift">>)>>
    /\ pc' = "setup"
    /\ UNCHANGED <<diag, input, ranks, heap, status, Re, dt, t_final, vis_steps, t, step, bcs,
                   fields, ops, outs, hist>>

\* Run: SetupMesh, SetupFESpaces, SetupBoundaryConditions; time = 0.0
QuickSetup ==
    /\ prog = "quick_test" /\ pc = "setup"
    /\ u' = ZeroVec(VDofs(mesh))
    /\ u_old' = ZeroVec(VDofs(mesh))
    /\ u_star' = ZeroVec(VDofs(mesh))
    /\ p' = ZeroVec(PDofs(mesh))
    /\ t' = FZero
    /\ step' = 0
    /\ pc' = "for"
    /\ heap' = New(heap, Objs({"mesh", "fec_vel", "fec_pres", "fespace_vel",
                               "fespace_pres", "u", "u_old", "p", "u_star"}))
    /\ UNCHANGED <<diag, input, ranks, status, params, bcs, p_new, p_old, ops, force_file,
                   outs, hist>>

\* Run: step < max_test_steps
QuickFor ==
    /\ prog = "quick_test" /\ pc = "for"
    /\ pc' = IF step < max_test_steps THEN "output" ELSE "close"
    /\ UNCHANGED <<diag, input, ranks, heap, status, params, t, step, bcs, fields, ops,
                   force_file, outs, hist>>

\* Run: time = step * dt; every output_interval-th step a row and
\* SaveSolution(step / output_interval)
QuickOutput ==
    /\ prog = "quick_test" /\ pc = "output"
    /\ LET time == FMulInt(step, DecToDouble(dt))
           row  == Row(Format6(time), <<"1.2+0.1*sin(2*pi*0.2*time)", time>>,
                       <<"0.2*cos(2*pi*0.2*time)", time>>)
           n    == step \div output_interval
       IN  /\ t' = time
           /\ IF CMod(step, output_interval) = 0
              THEN /\ force_file' = WriteRow(force_file, row)
                   /\ files' = WriteFile(WriteFile(files, <<"sol_u", n>>, u),
                                         <<"sol_p", n>>, p)
              ELSE UNCHANGED <<force_file, files>>
    /\ pc' = "timestep"
    /\ UNCHANGED <<diag, input, ranks, heap, status, params, step, bcs, fields, ops, snapshots,
                   hist>>

\* Run: TimeStep(step); if (time >= final_time) break; otherwise step++
QuickTimeStep ==
    /\ prog = "quick_test" /\ pc = "timestep"
    /\ u_old' = u
    /\ steps_run' = steps_run + 1
    /\ IF ~FLess(t, DecToDouble(t_final))
       THEN pc' = "close" /\ step' = step
       ELSE pc' = "for" /\ step' = step + 1
    /\ UNCHANGED <<diag, input, ranks, heap, status, params, t, bcs, u, u_star, p, p_new, p_old,
                   ops, force_file, outs, stages>>

\* main: CloseOutput(), return 0
QuickClose ==
    /\ prog = "quick_test" /\ pc = "close"
    /\ pc' = "exit" /\ status' = 0
    /\ heap' = Delete(heap, Objs({"fespace_vel", "fespace_pres", "fec_vel",
                                  "fec_pres", "u", "u_old", "p", "u_star",
                                  "mesh"}))
    /\ UNCHANGED <<diag, input, ranks, params, t, step, bcs, fields, ops, force_file,
                   outs, hist>>

(***************************************************************************)
(* Specification                                                           *)
(***************************************************************************)
Programs == {"navier_simple", "navier_solver", "quick_test"}

\* the values the parameters are declared or constructed with
Defaults ==
    [navier_simple |-> [Re |-> <<100, 0>>, dt |-> <<1, 2>>,
                        t_final |-> <<2, 1>>, num_steps |-> 0],
     navier_solver |-> [Re |-> <<1000, 0>>, dt |-> <<1, 3>>,
                        t_final |-> <<100, 0>>, num_steps |-> 100000],
     quick_test    |-> [Re |-> <<1000, 0>>, dt |-> <<1, 3>>,
                        t_final |-> <<100, 0>>, num_steps |-> 5000]]

\* the state in which main is entered
Launch ==
    /\ prog \in Programs
    /\ args \in CommandLines[prog]
    /\ disk_room \in DiskRooms(prog, args)
    /\ log = <<>>
    /\ converged = [vel |-> FALSE, pres |-> FALSE]
    /\ force_state = "unopened"
    /\ mesh = MeshFiles[IF prog = "navier_simple"
                        THEN Parsed("-m", "cylinder_structured.mesh")
                        ELSE "cylinder.mesh"]
    /\ pc = "parse"
    /\ status = -1
    /\ Re = Defaults[prog].Re
    /\ dt = Defaults[prog].dt
    /\ t_final = Defaults[prog].t_final
    /\ vis_steps = 5
    /\ num_steps = Defaults[prog].num_steps
    /\ kinvis = QInv(QFromDec(Re))
    /\ t = FZero
    /\ step = 0
    /\ ess_bdr_vel = <<>> /\ ess_bdr_pres = <<>>
    /\ ess_dofs_vel = {} /\ ess_dofs_pres = {}
    /\ u = <<>> /\ u_old = <<>> /\ u_star = <<>>
    /\ p = <<>> /\ p_new = <<>> /\ p_old = <<>>
    /\ opM = <<>> /\ opK = <<>> /\ opS = <<>> /\ opD = <<>> /\ opH = <<>>
    /\ force_file = <<>>
    /\ snapshots = <<>>
    /\ files = {}
    /\ stages = <<>>
    /\ steps_run = 0
    /\ heap = <<>>

\* a run on one process: there are no other ranks
Init ==
    /\ Launch
    /\ rank_pc = <<>> /\ rank_t = <<>> /\ rank_step = <<>> /\ joined = <<>>
    /\ rank_status = <<>> /\ shared_file = <<>> /\ rank_off = <<>>
    /\ rank_buf = <<>>

Next ==
    \/ SimpleParse
    \/ SimpleSetup
    \/ SimpleWhile
    \/ SimpleStage1
    \/ SimpleStage2
    \/ SimpleStage3
    \/ SimplePressureUpdate
    \/ SimpleOutput
    \/ SimpleAdvance
    \/ SimpleFinish
    \/ SolverParse
    \/ SolverInit
    \/ SolverSetup
    \/ SolverFor
    \/ SolverOutput
    \/ SolverTimeStep
    \/ SolverSnapshot
    \/ SolverBreak
    \/ SolverSaveSolution
    \/ QuickParse
    \/ QuickInit
    \/ QuickSetup
    \/ QuickFor
    \/ QuickOutput
    \/ QuickTimeStep
    \/ QuickClose

Spec == Init /\ [][Next]_vars

(***************************************************************************)
(* navier_simple under mpirun -np NumRanks: every rank executes main.  The  *)
(* ranks meet in the collective operations only: each CG solve reduces its  *)
(* dot products over MPI_COMM_WORLD, and a reduction returns on a rank only *)
(* when every rank has brought its contribution.  This specification       *)
(* follows the position of each rank and the solves it has entered; the    *)
(* values of the fields are those of the run on one process (Spec).        *)
(***************************************************************************)
NumRanks == 2
Ranks == 1..NumRanks

\* the command lines run in parallel
ParCommandLines ==
    {<<Arg("-dt", 25, 2), Arg("-t", 1, 0), Arg("-vs", 2, 0)>>,
     <<Arg("-dt", 1, 1), Arg("-t", 3, 1), Arg("-vs", 1, 0)>>,
     <<Arg("-Re", 0, 0), Arg("-t", 2, 2)>>,
     <<Arg("-t", 0, 0)>>,
     <<BadArg("-dt")>>}

ParInit ==
    /\ Launch
    /\ prog = "navier_simple" /\ args \in ParCommandLines /\ disk_room = -1
    /\ rank_pc = [r \in Ranks |-> "setup"]
    /\ rank_t = [r \in Ranks |-> FZero]
    /\ rank_step = [r \in Ranks |-> 0]
    /\ joined = [r \in Ranks |-> 0]
    /\ rank_status = [r \in Ranks |-> -1]
    /\ shared_file = <<>>
    /\ rank_off = [r \in Ranks |-> 0]
    /\ rank_buf = [r \in Ranks |-> <<>>]

\* what the run on one process keeps in its own variables
serial == <<pc, status, params, t, step, bcs, fields, ops, force_file, outs,
            hist, diag, input, heap>>

\* Mpi::Root(): the rank that prints and writes the rows
IsRoot(r) == r = 1

\* a line of the force file of which only the step and the time are followed
ParRow(n, time) == [kind |-> "row", step |-> n, time |-> time]

\* a stretch of a file that was never written
Hole == [kind |-> "hole"]

\* the buffer of a stream goes to the file at the position of the stream: an
\* ofstream opened without ios::app writes where it stands, over what the
\* file holds there
FlushAppend(file, off, lines) == file \o lines
FlushAt(file, off, lines) ==
    LET last == IF Len(file) > off + Len(lines) THEN Len(file)
                ELSE off + Len(lines)
    IN  [i \in 1..last |->
            IF i > off /\ i <= off + Len(lines) THEN lines[i - off]
            ELSE IF i <= Len(file) THEN file[i] ELSE Hole]

\* lines 20-170 on rank r: options (a command line that does not parse
\* returns 1), mesh, spaces, operators, t = 0, step = 0; every rank opens
\* forces_simple.dat, which empties the file, and puts the header in its
\* stream, which keeps it in its buffer or writes it at once (the buffering
\* of a file stream is left to the implementation)
RankSetup(r) ==
    /\ rank_pc[r] = "setup"
    /\ IF ~ArgsGood(SimpleOptions)
       THEN /\ rank_pc' = [rank_pc EXCEPT ![r] = "exit"]
            /\ rank_status' = [rank_status EXCEPT ![r] = 1]
            /\ UNCHANGED <<rank_t, rank_step, rfile>>
       ELSE /\ rank_t' = [rank_t EXCEPT ![r] = FZero]
            /\ rank_step' = [rank_step EXCEPT ![r] = 0]
            /\ rank_pc' = [rank_pc EXCEPT ![r] = "while"]
            /\ LET head == <<Header(<<"time", "Drag", "Lift">>)>>
               IN  \E buffered \in BOOLEAN :
                      IF buffered
                      THEN /\ shared_file' = <<>>
                           /\ rank_off' = [rank_off EXCEPT ![r] = 0]
                           /\ rank_buf' = [rank_buf EXCEPT ![r] = head]
                      ELSE /\ shared_file' = FlushAt(<<>>, 0, head)
                           /\ rank_off' = [rank_off EXCEPT ![r] = Len(head)]
                           /\ rank_buf' = [rank_buf EXCEPT ![r] = <<>>]
            /\ UNCHANGED rank_status
    /\ UNCHANGED <<serial, joined>>

\* line 172 on rank r: while (t < t_final)
RankWhile(r) ==
    /\ rank_pc[r] = "while"
    /\ rank_pc' = [rank_pc EXCEPT ![r] =
                      IF FLess(rank_t[r], DecToDouble(Parsed("-t", t_final)))
                      THEN "stage1" ELSE "done"]
    /\ UNCHANGED <<serial, rank_t, rank_step, joined, rank_status, rfile>>

\* line 53, ParMesh(MPI_COMM_WORLD, *mesh): the elements rank r is given
\* and the nodes of these elements
LocalEdges(r) ==
    {e \in mesh.edges :
        \E a \in e : (\A b \in e : a <= b) /\ ((a - 1) % NumRanks) + 1 = r}
LocalNodes(r) == UNION LocalEdges(r)

\* the lengths of the grid functions u, u_old, u_star and p, p_new of rank
\* r: the degrees of freedom on the nodes of its own elements
LocalVelSize(r) == 2 * Cardinality(LocalNodes(r))
LocalPresSize(r) ==
    Cardinality({k \in PDofs(mesh) : mesh.pnodes[k] \in LocalNodes(r)})

\* lines 66-67: the numbers of degrees of freedom of the whole mesh
vel_size == 2 * NumNodes(mesh)
pres_size == Len(mesh.pnodes)

\* lines 184-196: the views of length vel_size on the data of u_old and
\* u_star lie within the vectors of rank r
ViewsFit(r) == vel_size <= LocalVelSize(r)

\* lines 174-196 on rank r: the right-hand side of Stage 1 from the rank's
\* own rows, then the call of vel_solver.Mult; with views that reach past
\* the rank's vectors the reads and writes through them are undefined: the
\* rank goes on, or is killed (SIGABRT, status 134) before it joins the solve
RankStage1(r) ==
    /\ rank_pc[r] = "stage1"
    /\ \E killed \in IF ViewsFit(r) THEN {FALSE} ELSE BOOLEAN :
          IF killed
          THEN /\ rank_pc' = [rank_pc EXCEPT ![r] = "exit"]
               /\ rank_status' = [rank_status EXCEPT ![r] = 134]
               /\ UNCHANGED joined
          ELSE /\ joined' = [joined EXCEPT ![r] = @ + 1]
               /\ rank_pc' = [rank_pc EXCEPT ![r] = "vel_solve"]
               /\ UNCHANGED rank_status
    /\ UNCHANGED <<serial, rank_t, rank_step, rfile>>

\* the reductions of the solve rank r is in have the contribution of every
\* rank
AllJoinedNoWait(r) == TRUE
AllJoined(r) == \A q \in Ranks : joined[q] >= joined[r]

\* lines 196-198 on rank r: vel_solver.Mult returns; u_star = u_star_vec
RankVelSolve(r) ==
    /\ rank_pc[r] = "vel_solve"
    /\ AllJoined(r)
    /\ rank_pc' = [rank_pc EXCEPT ![r] = "stage2"]
    /\ UNCHANGED <<serial, rank_t, rank_step, joined, rank_status, rfile>>

\* lines 201-216 on rank r: the right-hand side of Stage 2, then the call of
\* pres_solver.Mult
RankStage2(r) ==
    /\ rank_pc[r] = "stage2"
    /\ joined' = [joined EXCEPT ![r] = @ + 1]
    /\ rank_pc' = [rank_pc EXCEPT ![r] = "pres_solve"]
    /\ UNCHANGED <<serial, rank_t, rank_step, rank_status, rfile>>

\* lines 216-218 on rank r: pres_solver.Mult returns; p_new = p_new_vec
RankPresSolve(r) ==
    /\ rank_pc[r] = "pres_solve"
    /\ AllJoined(r)
    /\ rank_pc' = [rank_pc EXCEPT ![r] = "stage3"]
    /\ UNCHANGED <<serial, rank_t, rank_step, joined, rank_status, rfile>>

\* lines 221-236 on rank r: u = u* - dt * D^T p_new (no rank is taken to
\* wait for another in D->Transpose() and DT->Mult)
RankStage3(r) ==
    /\ rank_pc[r] = "stage3"
    /\ rank_pc' = [rank_pc EXCEPT ![r] = "output"]
    /\ UNCHANGED <<serial, rank_t, rank_step, joined, rank_status, rfile>>

\* lines 238-262 on rank r: p = p_new; every vis_steps-th step the root
\* puts a row in its stream and flushes it; t += dt; step++
RankAdvance(r) ==
    /\ rank_pc[r] = "output"
    /\ IF IsRoot(r)
          /\ CMod(rank_step[r], Parsed("-vs", <<vis_steps, 0>>)[1]) = 0
       THEN LET lines == Append(rank_buf[r], ParRow(rank_step[r], rank_t[r]))
            IN  /\ shared_file' = FlushAt(shared_file, rank_off[r], lines)
                /\ rank_off' = [rank_off EXCEPT ![r] = @ + Len(lines)]
                /\ rank_buf' = [rank_buf EXCEPT ![r] = <<>>]
       ELSE UNCHANGED rfile
    /\ rank_t' = [rank_t EXCEPT ![r] = FAdd(@, DecToDouble(Parsed("-dt", dt)))]
    /\ rank_step' = [rank_step EXCEPT ![r] = @ + 1]
    /\ rank_pc' = [rank_pc EXCEPT ![r] = "while"]
    /\ UNCHANGED <<serial, joined, rank_status>>

\* lines 265-287 on rank r: force_file.close() writes what the buffer of
\* the stream still holds; the summary; the deletes; return 0
RankFinish(r) ==
    /\ rank_pc[r] = "done"
    /\ shared_file' = IF rank_buf[r] = <<>> THEN shared_file
                      ELSE FlushAt(shared_file, rank_off[r], rank_buf[r])
    /\ rank_off' = [rank_off EXCEPT ![r] = @ + Len(rank_buf[r])]
    /\ rank_buf' = [rank_buf EXCEPT ![r] = <<>>]
    /\ rank_status' = [rank_status EXCEPT ![r] = 0]
    /\ rank_pc' = [rank_pc EXCEPT ![r] = "exit"]
    /\ UNCHANGED <<serial, rank_t, rank_step, joined>>

ParNext ==
    \/ \E r \in Ranks : RankSetup(r)
    \/ \E r \in Ranks : RankWhile(r)
    \/ \E r \in Ranks : RankStage1(r)
    \/ \E r \in Ranks : RankVelSolve(r)
    \/ \E r \in Ranks : RankStage2(r)
    \/ \E r \in Ranks : RankPresSolve(r)
    \/ \E r \in Ranks : RankStage3(r)
    \/ \E r \in Ranks : RankAdvance(r)
    \/ \E r \in Ranks : RankFinish(r)

ParSpec == ParInit /\ [][ParNext]_vars

(***************************************************************************)
(* Properties                                                              *)
(***************************************************************************)
Finished == pc = "exit" /\ status = 0

\* T is an exact integer multiple of h > 0 (decimal numerals)
DecMultiple(T, h) ==
    /\ h[1] > 0
    /\ (T[1] * Pow10(h[2])) % (h[1] * Pow10(T[2])) = 0
\* T / h for such T, h
DecQuotient(T, h) == (T[1] * Pow10(h[2])) \div (h[1] * Pow10(T[2]))
\* n * h >= T, and n * h - T < h, in exact arithmetic
ElapsedReaches(n, h, T) == (n * h[1]) * Pow10(T[2]) >= T[1] * Pow10(h[2])
ElapsedWithinOne(n, h, T) ==
    ((n - 1) * h[1]) * Pow10(T[2]) < T[1] * Pow10(h[2])

\* C1: when the final time is an exact integer multiple of the time step, a
\* run that completes has carried out exactly T / dt steps.
C1_ExactStepCount ==
    (Finished /\ DecMultiple(t_final, dt))
        => steps_run = DecQuotient(t_final, dt)

\* C2: a completed run has left the time loop at the first step boundary at
\* which the elapsed time is >= T: the elapsed time steps_run * dt is >= T
\* and exceeds T by less than one dt.
C2_ExitAtFirstBoundary ==
    (Finished /\ dt[1] > 0)
        => /\ ElapsedReaches(steps_run, dt, t_final)
           /\ ElapsedWithinOne(steps_run, dt, t_final)

\* C3: a run of the quick-test solver is never silently truncated: when it
\* ends with status 0 (no error reported) it has stepped until the elapsed
\* time reached the final time, however many steps that takes.
C3_NeverTruncated ==
    (prog = "quick_test" /\ Finished /\ dt[1] > 0)
        => ElapsedReaches(steps_run, dt, t_final)

StageOrder == <<"stage1", "stage2", "stage3">>

\* C4: in navier_simple the stages of a step run once each in the order
\* predictor, Poisson solve, correction, and t and step change only after
\* all three have run in that step, by dt and by 1, once per step.
C4_StagesThenAdvance ==
    [][(prog = "navier_simple" /\ pc \notin {"parse", "setup"})
        => /\ (stages' # stages)
                => \/ /\ Len(stages) < 3
                      /\ stages' = Append(stages, StageOrder[Len(stages) + 1])
                   \/ /\ stages = StageOrder /\ stages' = <<>>
                      /\ step' = step + 1
           /\ (t' # t \/ step' # step)
                => /\ stages = StageOrder
                   /\ stages' = <<>>
                   /\ t' = FAdd(t, DecToDouble(dt))
                   /\ step' = step + 1]_vars

C4_Witness ==
    /\ prog = "navier_simple" /\ pc = "while" /\ step = 2 /\ stages = <<>>
    /\ FCmp(t, FZero) > 0

\* the value the program prescribes on an essential velocity dof: the one
\* projected onto the essential boundary
Prescribed(i) ==
    ProjectBdrCoefficient(mesh, ZeroVec(VDofs(mesh)), ess_bdr_vel)[i]

\* C5: after Stage 3 of every step of navier_simple every essential velocity
\* degree of freedom holds its prescribed boundary value.
C5_EssentialHeld ==
    (prog = "navier_simple" /\ pc \in {"output", "advance"})
        => \A i \in ess_dofs_vel : u[i] = Prescribed(i)

\* C6: the velocity prescribed by navier_simple is zero on the degrees of
\* freedom of attributes 1 and 4 and (1, 0) on those of attribute 2.
C6_PrescribedValues ==
    (prog = "navier_simple" /\ pc = "while" /\ steps_run = 0)
        => \A i \in VDofs(mesh) :
              /\ VAttr(mesh, i) \in {1, 4} => u[i] = QInt(0)
              /\ VAttr(mesh, i) = 2 => u[i] = InletCoeff(VComp(mesh, i))

Marked(ess_bdr) == {a \in DOMAIN ess_bdr : ess_bdr[a] = 1}

\* C7: wherever essential boundaries are marked, the attributes marked for
\* velocity are exactly {1, 2, 4} and those marked for pressure exactly {3}.
C7_EssentialAttributes ==
    (ess_bdr_vel # <<>>)
        => /\ Marked(ess_bdr_vel) = {1, 2, 4}
           /\ Marked(ess_bdr_pres) = {3}

\* the interval, in steps, at which the running program writes a row
OutputEvery ==
    IF prog = "navier_simple" THEN vis_steps
    ELSE IF prog = "navier_solver" THEN NSTEPS_OUTPUT
    ELSE output_interval

RowTimes == [i \in 1..(Len(force_file) - 1) |-> force_file[i + 1].time]

\* C9: the run of navier_simple with the default parameters writes exactly
\* five data rows, at times 0, 0.05, 0.1, 0.15 and 0.2.
C9_DefaultRows ==
    (Finished /\ prog = "navier_simple" /\ args = <<>>)
        => RowTimes = <<<<0, 0>>, <<5, 2>>, <<1, 1>>, <<15, 2>>, <<2, 1>>>>

IsHeader(line) ==
    /\ line.kind = "header"
    /\ line.cols \in {<<"time", "Drag", "Lift">>, <<"Time", "Drag", "Lift">>}

SnapshotNames(field) == {f.name : f \in {g \in files : g.name[1] = field}}

\* C11: each time navier_simple has written a row of output, as many
\* velocity snapshots and as many pressure snapshots, under names that
\* differ, are on the disk as outputs were made.
C11_SnapshotPerOutput ==
    (/\ prog = "navier_simple" /\ pc \in {"advance", "exit"}
     /\ force_state \in {"good", "closed"})
        => /\ Cardinality(SnapshotNames("sol_u")) = Len(force_file) - 1
           /\ Cardinality(SnapshotNames("sol_p")) = Len(force_file) - 1

\* C12: with a time step or a Reynolds number that is not positive
\* navier_simple assembles no operator and executes no step, and it ends with
\* a non-zero status after a message.
C12_FailsFast ==
    (prog = "navier_simple" /\ pc # "parse" /\ (dt[1] <= 0 \/ Re[1] <= 0))
        => /\ opM = <<>> /\ opK = <<>> /\ opH = <<>>
           /\ steps_run = 0
           /\ pc = "exit" => (status # 0 /\ log # <<>>)

\* the mesh has a boundary element of the outlet attribute
HasOutlet == \E n \in 1..NumNodes(mesh) : mesh.attr[n] = 3

\* C13: on a mesh without outlet boundary navier_simple never solves the
\* pressure system, and it ends with a non-zero status after a message.
C13_NoOutletDetected ==
    (prog = "navier_simple" /\ ~HasOutlet)
        => /\ "stage2" \notin {stages[i] : i \in 1..Len(stages)}
           /\ steps_run = 0
           /\ pc = "exit" => (status # 0 /\ log # <<>>)

\* C14: when the momentum solve or the pressure solve of navier_simple has
\* ended without converging, a warning is on the console before the next
\* stage starts.
C14_WarnsUnconverged ==
    (/\ prog = "navier_simple"
     /\ \/ pc = "stage2" /\ ~converged.vel
        \/ pc = "stage3" /\ ~converged.pres)
        => \E i \in 1..Len(log) : log[i] = "warning"

\* C15: when a write to the force file of navier_simple has failed, the
\* failure is on the console.
C15_WriteFailureLogged ==
    (prog = "navier_simple" /\ force_state = "fail")
        => \E i \in 1..Len(log) : log[i] = "write failed"

\* the command line names an option the program does not register, or gives
\* an option a value that does not parse
ParseFails ==
    \E i \in 1..Len(args) :
        \/ args[i].opt \notin (IF prog = "navier_simple" THEN SimpleOptions
                                                         ELSE SolverOptions)
        \/ ~args[i].ok

\* C16: a program whose command line does not parse has exited with a
\* non-zero status once parsing is over, with no boundary set up, no operator
\* assembled, no field allocated, no step executed and no output file
\* created.
C16_ParseFailureExits ==
    (ParseFails /\ pc # "parse")
        => /\ pc = "exit" /\ status # 0 /\ status # -1
           /\ ess_bdr_vel = <<>> /\ ess_bdr_pres = <<>>
           /\ opM = <<>> /\ opK = <<>> /\ opS = <<>> /\ opD = <<>> /\ opH = <<>>
           /\ u = <<>> /\ p = <<>>
           /\ steps_run = 0 /\ stages = <<>>
           /\ force_file = <<>> /\ force_state = "unopened"
           /\ snapshots = <<>> /\ files = {}

C16_Witness ==
    /\ prog = "navier_simple" /\ pc = "exit" /\ status = 1
    /\ \E i \in 1..Len(args) : args[i].opt \in SimpleOptions /\ ~args[i].ok
    /\ log = <<"usage">> /\ force_file = <<>>

\* C17: in a run of navier_simple with a positive time step in which the
\* velocity projected onto the essential boundary is zero everywhere, the
\* velocity is exactly zero after setup and after every stage of every step.
C17_ZeroStaysZero ==
    (/\ prog = "navier_simple" /\ u # <<>> /\ dt[1] > 0
     /\ IsZeroVec(ProjectBdrCoefficient(mesh, ZeroVec(VDofs(mesh)),
                                        ess_bdr_vel)))
        => IsZeroVec(u) /\ IsZeroVec(u_star)

C17_Witness ==
    /\ prog = "navier_simple" /\ dt[1] > 0 /\ steps_run >= 2
    /\ ess_dofs_vel = {} /\ u # <<>> /\ IsZeroVec(u)
    /\ stages = <<"stage1", "stage2", "stage3">>

\* rank q is, in step n or later, at or past the given positions of the loop
AtOrPast(q, n, positions) ==
    rank_step[q] > n \/ (rank_step[q] = n /\ rank_pc[q] \in positions)

\* rank r has started the work of step n
Started(r, n) ==
    AtOrPast(r, n, {"vel_solve", "stage2", "pres_solve", "stage3", "output"})
\* rank q has entered, has returned from, the momentum solve of step n
EnteredVel(q, n) ==
    AtOrPast(q, n, {"vel_solve", "stage2", "pres_solve", "stage3", "output"})
ReturnedVel(q, n) ==
    AtOrPast(q, n, {"stage2", "pres_solve", "stage3", "output"})
\* rank q has entered, has returned from, the pressure solve of step n
EnteredPres(q, n) == AtOrPast(q, n, {"pres_solve", "stage3", "output"})
ReturnedPres(q, n) == AtOrPast(q, n, {"stage3", "output"})

C19_OptionsUsed ==
    (prog = "navier_solver" /\ ~ParseFails /\ pc \notin {"parse", "init"})
        => /\ Re = Parsed("-Re", Defaults[prog].Re)
           /\ dt = Parsed("-dt", Defaults[prog].dt)
           /\ t_final = Parsed("-t", Defaults[prog].t_final)

\* C20: a completed run of navier_solver with at least one configured step
\* leaves the velocity snapshots and the pressure snapshots of the indices
\* 0 to 9 on the disk, and no others.
C20_TenSnapshots ==
    (Finished /\ prog = "navier_solver" /\ num_steps >= 1)
        => /\ SnapshotNames("sol_u") = {<<"sol_u", i>> : i \in 0..9}
           /\ SnapshotNames("sol_p") = {<<"sol_p", i>> : i \in 0..9}

\* C21: the right-hand side navier_simple forms for the momentum solve of a
\* step is (1/dt) M u minus the convective term of the velocity u the step
\* starts from.
C21_ConvectiveTermInRhs ==
    (prog = "navier_simple" /\ pc = "stage1")
        => Stage1Rhs = VecSub(Scale(QInv(QFromDec(dt)), MatVec(opM, u)),
                              Convection(mesh, u))

\* a field all of whose entries hold the value c
ConstVec(v, c) == [i \in DOMAIN v |-> c]

\* C22: from the second step on, the systems navier_simple solves in Stage 1
\* and in Stage 2 are the same whatever the tentative velocity and the
\* tentative pressure of the step before hold: no value of theirs is read.
C22_TentativeNotCarried ==
    (prog = "navier_simple" /\ steps_run >= 1)
        => /\ pc = "stage1" =>
                \A c \in SolveVals :
                    Stage1System(ConstVec(u_star, c)) = Stage1System(u_star)
           /\ pc = "stage2" =>
                \A c \in SolveVals :
                    Stage2System(ConstVec(p_new, c)) = Stage2System(p_new)

\* C23: in navier_simple the operators M, K, S, D and H hold, from their
\* assembly before the loop to the end of the run, the values they were
\* built with: H = (1/dt) M + (1/Re) K, none of them touched by the
\* eliminations of the steps.
C23_OperatorsFixed ==
    (prog = "navier_simple" /\ opH # <<>>)
        => /\ opM = AssembleM(mesh)
           /\ opK = AssembleK(mesh)
           /\ opS = AssembleS(mesh)
           /\ opD = AssembleD(mesh)
           /\ opH = Helmholtz(AssembleM(mesh), AssembleK(mesh), QFromDec(dt),
                              QInv(QFromDec(Re)))

C23_Witness ==
    /\ prog = "navier_simple" /\ pc = "stage1" /\ steps_run >= 2
    /\ ess_dofs_vel # {} /\ ess_dofs_pres # {}
    /\ opH = Helmholtz(opM, opK, QFromDec(dt), kinvis)
    /\ opH # EliminateMat(opH, ess_dofs_vel)

\* C24: the force computation and the output of navier_simple run with the
\* three stages and the pressure update of the step done, and leave every
\* velocity and pressure field as it was; the row they write carries the
\* drag read from the updated pressure.
C24_OutputReadsOnly ==
    [][(prog = "navier_simple" /\ pc = "output")
         => /\ stages = <<"stage1", "stage2", "stage3">>
            /\ p = p_new
            /\ fields' = fields
            /\ Len(force_file') > Len(force_file) =>
                  force_file'[Len(force_file')].drag =
                      <<"Cd", QMul(QInt(2), QSub(p'[1], p'[Len(p')]))>>]_vars

C24_Witness ==
    /\ prog = "navier_simple" /\ pc = "advance" /\ steps_run >= 1
    /\ Len(force_file) >= 3
    /\ ~IsZeroVec(p) /\ ~IsZeroVec(u)
    /\ force_file[Len(force_file)].drag # <<"Cd", QInt(0)>>

\* C25: wherever the divergence operator D is assembled, the operator that
\* D->Transpose() yields has at (i, j) the entry D has at (j, i); and Stage 3
\* of every step of navier_simple subtracts from u*, at each velocity degree
\* of freedom i, dt times the sum over j of D(j, i) p_new(j), with the D
\* that formed the right-hand side of Stage 2.
C25_GradientIsTranspose ==
    [][opD # <<>>
         => /\ LET G == Transpose(opD)
               IN  /\ DOMAIN G = VDofs(mesh)
                   /\ \A i \in VDofs(mesh) :
                         /\ DOMAIN G[i] = PDofs(mesh)
                         /\ \A j \in PDofs(mesh) : G[i][j] = opD[j][i]
            /\ (prog = "navier_simple" /\ pc = "stage3")
                  => /\ opD' = opD
                     /\ u' = [i \in VDofs(mesh) |->
                                QSub(u_star[i],
                                     QMul(QFromDec(dt),
                                          QSum([j \in PDofs(mesh) |->
                                                  QMul(opD[j][i], p_new[j])],
                                               SeqOf(Len(p_new)))))]]_vars

C25_Witness ==
    /\ prog = "navier_simple" /\ pc = "update" /\ steps_run >= 1
    /\ stages = <<"stage1", "stage2", "stage3">>
    /\ u # u_star
    /\ \E i \in VDofs(mesh), j \in PDofs(mesh) : opD[j][i] # QInt(0)

\* every rank has returned from main
AllExited == DOMAIN rank_pc # {} /\ \A r \in DOMAIN rank_pc : rank_pc[r] = "exit"

Left(r) == rank_pc[r] \in {"done", "exit"}

\* C27: in a parallel run of navier_simple no rank has left the time loop or
\* the program while another rank waits in a collective solve that the first
\* has not entered, and the ranks that have all returned have taken the same
\* number of steps.
C27_NoRankLeftWaiting ==
    /\ \A r \in DOMAIN rank_pc, q \in DOMAIN rank_pc :
          (Left(r) /\ rank_pc[q] \in {"vel_solve", "pres_solve"})
              => joined[r] >= joined[q]
    /\ AllExited
          => \A r \in DOMAIN rank_pc, q \in DOMAIN rank_pc :
                rank_step[r] = rank_step[q]

\* C28: on every rank that is in the time loop the views of length vel_size
\* and pres_size lie within the rank's own velocity and pressure vectors,
\* and the index pres_size - 1 is an index of its pressure vector.
C28_ViewsWithinLocal ==
    \A r \in DOMAIN rank_pc :
        rank_pc[r] \in {"stage1", "vel_solve", "stage2", "pres_solve",
                        "stage3", "output"}
            => /\ vel_size <= LocalVelSize(r)
               /\ pres_size <= LocalPresSize(r)
               /\ 0 <= pres_size - 1 /\ pres_size - 1 < LocalPresSize(r)

\* C29: the output test of navier_simple (step % vis_steps) is evaluated
\* only with vis_steps >= 1, and the snapshot test of navier_solver
\* (step % (num_steps / 10)) only with num_steps / 10 >= 1.
C29_NoDivisionByZero ==
    /\ (prog = "navier_simple" /\ pc = "output") => vis_steps >= 1
    /\ (prog = "navier_solver" /\ pc = "snapshot") => num_steps \div 10 >= 1

\* C30: no object made with new is deleted twice, and when the program has
\* returned every object it made with new has been deleted exactly once.
C30_ReleasedExactlyOnce ==
    /\ \A o \in DOMAIN heap : heap[o] <= 1
    /\ (pc = "exit" /\ status \in {0, 1})
          => \A o \in DOMAIN heap : heap[o] = 1

====
